---------------------------- MODULE Spec2Model ----------------------------
(***************************************************************************)
(* Model of interop-tests/src/arch.rs (rust-libp2p).                       *)
(*                                                                         *)
(* Part I   build_swarm: the match over (transport, sec_protocol, muxer)   *)
(*          of the native and the wasm module, with the fallible builder   *)
(*          steps of each arm (every `?` of the source).                   *)
(* Part II  RedisClient: blpop / rpush of the native client (one broker    *)
(*          connection per call) and of the wasm client (POST /blpop to a  *)
(*          proxy; rpush bails), against a list broker.                    *)
(***************************************************************************)
EXTENDS Naturals, Sequences, FiniteSets, TLC

VARIABLES
    bs,         \* bs[p]: the build_swarm call of process p
    call,       \* call[c]: the RedisClient call client c is in
    left,       \* calls that may still be issued in this run
    lists,      \* lists[k]: the broker's list under key k
    blocked,    \* the broker's blocked BLPOP clients, longest waiting first
    pushedLog,  \* history: pushedLog[k], the values pushed under k, in order
    nPopped,    \* history: nPopped[k], how many values the broker popped from k
    returned,   \* history: returned[k][v], blpop calls that returned v for k
    usizeBits   \* width of usize on the target the native code is built for

buildVars == <<bs>>
rdvVars   == <<call, left, lists, blocked, pushedLog, nPopped, returned, usizeBits>>
vars      == <<bs, call, left, lists, blocked, pushedLog, nPopped, returned, usizeBits>>

(***************************************************************************)
(* Part I: build_swarm                                                     *)
(***************************************************************************)

\* Option<T>: None is the empty sequence, Some(x) the one-element sequence.
None == <<>>
Some(x) == <<x>>

\* crate::{Transport, SecProtocol, Muxer}, each value written as its Debug name.
Transport   == {"Tcp", "QuicV1", "WebRtcDirect", "Ws", "Webtransport"}
SecProtocol == {"Tls", "Noise"}
Muxer       == {"Mplex", "Yamux"}

OptSec   == {None} \cup {Some(s) : s \in SecProtocol}
OptMuxer == {None} \cup {Some(m) : m \in Muxer}

\* The two cfg(target_arch) modules.
Envs == {"native", "wasm"}

\* Bind addresses the callers pass.
Ips == {"10.0.0.5", "127.0.0.1"}

\* The processes that each build one swarm (a listener and a dialer).
Builders == {"listener", "dialer"}

\* with_idle_connection_timeout(Duration::from_secs(5))
IdleTimeoutSecs == 5

\* {:?} of an Option of a fieldless enum.
DebugOpt(o) == IF o = None THEN "None" ELSE "Some(" \o o[1] \o ")"

\* bail!("Unsupported combination: {t:?} {s:?} {m:?}")
UnsupportedMsg(t, s, m) ==
    "Unsupported combination: " \o t \o " " \o DebugOpt(s) \o " " \o DebugOpt(m)

\* One arm: its pattern, its builder steps in call order, and the tail of
\* its format!("/ip4/{ip}...") string.
Arm(t, s, m, steps, tail) ==
    [pat |-> <<t, s, m>>, steps |-> steps, tail |-> tail]

\* The arms of native::build_swarm, in source order.
NativeArms == <<
    Arm("QuicV1", None, None, <<"with_quic", "with_behaviour">>, "/udp/0/quic-v1"),
    Arm("Tcp", Some("Tls"), Some("Mplex"), <<"with_tcp", "with_behaviour">>, "/tcp/0"),
    Arm("Tcp", Some("Tls"), Some("Yamux"), <<"with_tcp", "with_behaviour">>, "/tcp/0"),
    Arm("Tcp", Some("Noise"), Some("Mplex"), <<"with_tcp", "with_behaviour">>, "/tcp/0"),
    Arm("Tcp", Some("Noise"), Some("Yamux"), <<"with_tcp", "with_behaviour">>, "/tcp/0"),
    Arm("Ws", Some("Tls"), Some("Mplex"), <<"with_websocket", "with_behaviour">>, "/tcp/0/ws"),
    Arm("Ws", Some("Tls"), Some("Yamux"), <<"with_websocket", "with_behaviour">>, "/tcp/0/ws"),
    Arm("Ws", Some("Noise"), Some("Mplex"), <<"with_websocket", "with_behaviour">>, "/tcp/0/ws"),
    Arm("Ws", Some("Noise"), Some("Yamux"), <<"with_websocket", "with_behaviour">>, "/tcp/0/ws"),
    Arm("WebRtcDirect", None, None, <<"with_other_transport", "with_behaviour">>,
        "/udp/0/webrtc-direct") >>

\* The arms of wasm::build_swarm, in source order.
WasmArms == <<
    Arm("Webtransport", None, None, <<"with_other_transport", "with_behaviour">>,
        "/udp/0/quic/webtransport"),
    Arm("Ws", Some("Noise"), Some("Mplex"), <<"with_other_transport", "with_behaviour">>,
        "/tcp/0/wss"),
    Arm("Ws", Some("Noise"), Some("Yamux"), <<"with_other_transport", "with_behaviour">>,
        "/tcp/0/wss"),
    Arm("WebRtcDirect", None, None, <<"with_other_transport", "with_behaviour">>,
        "/udp/0/webrtc-direct") >>

\* Mutant: the two cfg(target_arch) attributes exchanged.
ArmsOfSwapped(env) == IF env = "native" THEN WasmArms ELSE NativeArms

ArmsOf(env) == IF env = "native" THEN NativeArms ELSE WasmArms

\* Mutant: arms that match on the transport alone, (Transport::X, _, _).
MatchArmByTransport(env, t, s, m) ==
    LET arms == ArmsOf(env)
        hits == {i \in 1..Len(arms) : arms[i].pat[1] = t}
    IN  IF hits = {} THEN 0 ELSE CHOOSE i \in hits : \A j \in hits : i <= j

\* The match: the index of the first arm whose pattern equals the triple,
\* 0 when only the catch-all (t, s, m) arm is left.
MatchArm(env, t, s, m) ==
    LET arms == ArmsOf(env)
        hits == {i \in 1..Len(arms) : arms[i].pat = <<t, s, m>>}
    IN  IF hits = {} THEN 0 ELSE CHOOSE i \in hits : \A j \in hits : i <= j

\* Mutant: a string literal in place of format!, {ip} left as written.
FormatAddrLiteral(ip, tail) == "/ip4/{ip}" \o tail

\* format!("/ip4/{ip}<tail>")
FormatAddr(ip, tail) == "/ip4/" \o ip \o tail

\* The builder calls followed by `?` (with_websocket's after its .await);
\* with_quic() returns the next builder itself.
Fallible(step) ==
    step \in {"with_tcp", "with_websocket", "with_other_transport", "with_behaviour"}

NoSwarm == [stack |-> <<>>, idle |-> 0]
NoResult == [kind |-> "none", swarm |-> NoSwarm, addr |-> "", msg |-> ""]
OkResult(swarm, addr) == [kind |-> "Ok", swarm |-> swarm, addr |-> addr, msg |-> ""]
ErrResult(msg) == [kind |-> "Err", swarm |-> NoSwarm, addr |-> "", msg |-> msg]

\* .with_swarm_config(|c| c.with_idle_connection_timeout(..)).build()
BuiltSwarm(env, pat) == [stack |-> <<env>> \o pat, idle |-> IdleTimeoutSecs]

IdleBuild ==
    [pc |-> "idle", env |-> "native", ip |-> "", t |-> "", s |-> None, m |-> None,
     arm |-> 0, step |-> 0, result |-> NoResult]

\* Mutant: the catch-all arm falls back to a default stack instead of
\* bailing.
build_swarm_default(p, env, ip, t, s, m) ==
    /\ bs[p].pc = "idle"
    /\ LET a == MatchArm(env, t, s, m)
           c == [IdleBuild EXCEPT !.env = env, !.ip = ip, !.t = t, !.s = s, !.m = m]
       IN  bs' = [bs EXCEPT ![p] =
                IF a = 0
                THEN [c EXCEPT !.pc = "done",
                               !.result = OkResult(BuiltSwarm(env, <<t, s, m>>),
                                                   FormatAddr(ip, "/tcp/0"))]
                ELSE [c EXCEPT !.pc = "building", !.arm = a, !.step = 1]]
    /\ UNCHANGED rdvVars

\* build_swarm is called: the match picks an arm and starts its builder
\* chain, or takes the catch-all arm and bails.
build_swarm(p, env, ip, t, s, m) ==
    /\ bs[p].pc = "idle"
    /\ LET a == MatchArm(env, t, s, m)
           c == [IdleBuild EXCEPT !.env = env, !.ip = ip, !.t = t, !.s = s, !.m = m]
       IN  bs' = [bs EXCEPT ![p] =
                IF a = 0
                THEN [c EXCEPT !.pc = "done", !.result = ErrResult(UnsupportedMsg(t, s, m))]
                ELSE [c EXCEPT !.pc = "building", !.arm = a, !.step = 1]]
    /\ UNCHANGED rdvVars

CurArm(p) == ArmsOf(bs[p].env)[bs[p].arm]
CurStep(p) == CurArm(p).steps[bs[p].step]

\* The current builder step returns Ok: the chain goes on, and after the
\* last step the swarm is configured and built and the address formatted.
StepOk(p) ==
    /\ bs[p].pc = "building"
    /\ bs' = [bs EXCEPT ![p] =
            IF bs[p].step < Len(CurArm(p).steps)
            THEN [@ EXCEPT !.step = @ + 1]
            ELSE [@ EXCEPT !.pc = "done",
                           !.result = OkResult(BuiltSwarm(bs[p].env, CurArm(p).pat),
                                               FormatAddr(bs[p].ip, CurArm(p).tail))]]
    /\ UNCHANGED rdvVars

\* The current builder step returns Err and `?` returns it from build_swarm.
StepErr(p) ==
    /\ bs[p].pc = "building"
    /\ Fallible(CurStep(p))
    /\ bs' = [bs EXCEPT ![p] =
            [@ EXCEPT !.pc = "done", !.result = ErrResult(CurStep(p) \o " failed")]]
    /\ UNCHANGED rdvVars

BuildNext ==
    \/ \E p \in Builders, env \in Envs, ip \in Ips, t \in Transport,
          s \in OptSec, m \in OptMuxer : build_swarm(p, env, ip, t, s, m)
    \/ \E p \in Builders : StepOk(p)
    \/ \E p \in Builders : StepErr(p)

(***************************************************************************)
(* Part I: properties of build_swarm                                       *)
(***************************************************************************)

ByteStream == {"Tcp", "Ws"}
Integrated == {"QuicV1", "WebRtcDirect", "Webtransport"}

Called(p) == bs[p].pc # "idle"
Returned(p) == bs[p].pc = "done"
Triple(p) == <<bs[p].t, bs[p].s, bs[p].m>>

\* A security protocol and a muxer are both given.
FullPair(p) == bs[p].s # None /\ bs[p].m # None

\* The call returned the catch-all arm's error.
Unsupported(p) ==
    /\ Returned(p)
    /\ bs[p].result.kind = "Err"
    /\ bs[p].result.msg = UnsupportedMsg(bs[p].t, bs[p].s, bs[p].m)

\* The call returned an endpoint and its address.
ReturnedEndpoint(p) ==
    /\ Returned(p)
    /\ bs[p].result.kind = "Ok"
    /\ bs[p].result.swarm = [stack |-> <<bs[p].env>> \o Triple(p), idle |-> 5]
    /\ bs[p].result.addr # ""

\* The call returned the error of one of its arm's builder steps.
StepFailed(p) ==
    /\ Returned(p)
    /\ bs[p].result.kind = "Err"
    /\ bs[p].result.swarm = NoSwarm
    /\ bs[p].result.addr = ""
    /\ \E st \in {"with_tcp", "with_websocket", "with_other_transport", "with_behaviour"} :
          /\ bs[p].result.msg = st \o " failed"
          /\ bs[p].arm # 0
          /\ \E i \in 1..Len(CurArm(p).steps) : CurArm(p).steps[i] = st

\* C1 as claimed: in both environments, a call with a byte-stream transport
\* (Tcp, Ws) and any (security, muxer) of {Tls, Noise} x {Mplex, Yamux} does
\* not take the 'Unsupported combination' arm.
C1_AcceptsCrossProductEverywhere ==
    \A p \in Builders :
        (Called(p) /\ bs[p].t \in ByteStream /\ FullPair(p)) => ~Unsupported(p)

\* C1 as amended: natively, every call with Tcp or Ws and any (security,
\* muxer) of the cross-product matches an arm (it is never 'Unsupported') and
\* returns an endpoint with an address unless a builder step of the arm
\* fails; in wasm that holds for Ws with Noise only, and every Tcp triple and
\* every Ws triple with Tls is 'Unsupported'.
C1_AcceptsCrossProduct ==
    \A p \in Builders :
        (Called(p) /\ bs[p].t \in ByteStream /\ FullPair(p)) =>
            IF bs[p].env = "native" \/ (bs[p].t = "Ws" /\ bs[p].s = Some("Noise"))
            THEN /\ ~Unsupported(p)
                 /\ bs[p].arm # 0
                 /\ Returned(p) => (ReturnedEndpoint(p) \/ StepFailed(p))
            ELSE Unsupported(p)

\* C1 witness: a native (Tcp, Noise, Yamux) call and a wasm (Ws, Noise,
\* Mplex) call have both returned an endpoint.
C1_Witness ==
    /\ bs["listener"].env = "native" /\ Triple("listener") = <<"Tcp", Some("Noise"), Some("Yamux")>>
    /\ ReturnedEndpoint("listener")
    /\ bs["dialer"].env = "wasm" /\ Triple("dialer") = <<"Ws", Some("Noise"), Some("Mplex")>>
    /\ ReturnedEndpoint("dialer")

\* The triple has the wrong shape for its transport.
WrongShape(p) ==
    \/ bs[p].t \in Integrated /\ (bs[p].s # None \/ bs[p].m # None)
    \/ bs[p].t \in ByteStream /\ (bs[p].s = None \/ bs[p].m = None)

\* C2: in both environments a call whose triple has the wrong shape for its
\* transport fails at once with the 'Unsupported combination' error naming
\* the transport, security and muxer, and returns no endpoint and no address;
\* (QuicV1, Some(Noise), None) fails with "Unsupported combination: QuicV1
\* Some(Noise) None".
C2_WrongShapeRejected ==
    \A p \in Builders :
        (Called(p) /\ WrongShape(p)) =>
            /\ Returned(p)
            /\ bs[p].result.kind = "Err"
            /\ bs[p].result.swarm = NoSwarm
            /\ bs[p].result.addr = ""
            /\ bs[p].result.msg =
                  "Unsupported combination: " \o bs[p].t \o " "
                    \o (IF bs[p].s = None THEN "None" ELSE "Some(" \o bs[p].s[1] \o ")")
                    \o " "
                    \o (IF bs[p].m = None THEN "None" ELSE "Some(" \o bs[p].m[1] \o ")")
            /\ Triple(p) = <<"QuicV1", Some("Noise"), None>> =>
                  bs[p].result.msg = "Unsupported combination: QuicV1 Some(Noise) None"

\* C2 witness: (QuicV1, Some(Noise), None) was rejected natively and
\* (Ws, None, Some(Yamux)) in wasm.
C2_Witness ==
    /\ bs["listener"].env = "native" /\ Triple("listener") = <<"QuicV1", Some("Noise"), None>>
    /\ Unsupported("listener")
    /\ bs["dialer"].env = "wasm" /\ Triple("dialer") = <<"Ws", None, Some("Yamux")>>
    /\ Unsupported("dialer")

\* C3 as claimed: two successful calls with the same triple and ip return
\* the same address, whichever environment each ran in.
C3_SameAddressAcrossEnvs ==
    \A p, q \in Builders :
        (ReturnedEndpoint(p) /\ ReturnedEndpoint(q) /\ Triple(p) = Triple(q)
            /\ bs[p].ip = bs[q].ip) => bs[p].result.addr = bs[q].result.addr

\* The address tail each environment gives each transport.
ExpectedTail(env, t) ==
    CASE t = "QuicV1"       -> "/udp/0/quic-v1"
      [] t = "Tcp"          -> "/tcp/0"
      [] t = "Ws"           -> IF env = "native" THEN "/tcp/0/ws" ELSE "/tcp/0/wss"
      [] t = "WebRtcDirect" -> "/udp/0/webrtc-direct"
      [] t = "Webtransport" -> "/udp/0/quic/webtransport"

\* C3 as amended: the address of a successful call is a function of the
\* environment, the transport of the matched triple and the ip: "/ip4/{ip}"
\* followed by the fixed tail of that environment's arm. Ws yields
\* "/ip4/{ip}/tcp/0/ws" natively and "/ip4/{ip}/tcp/0/wss" in wasm;
\* WebRtcDirect yields "/ip4/{ip}/udp/0/webrtc-direct" in both.
C3_AddressPerEnv ==
    \A p \in Builders :
        ReturnedEndpoint(p) =>
            /\ bs[p].result.addr = "/ip4/" \o bs[p].ip \o ExpectedTail(bs[p].env, bs[p].t)
            /\ \A q \in Builders :
                  (ReturnedEndpoint(q) /\ bs[q].env = bs[p].env /\ Triple(q) = Triple(p)
                      /\ bs[q].ip = bs[p].ip) => bs[q].result.addr = bs[p].result.addr

\* C3 witness: the same Ws triple and ip, built natively and in wasm, gave
\* "/ip4/10.0.0.5/tcp/0/ws" and "/ip4/10.0.0.5/tcp/0/wss".
C3_Witness ==
    /\ ReturnedEndpoint("listener") /\ ReturnedEndpoint("dialer")
    /\ bs["listener"].env = "native" /\ bs["dialer"].env = "wasm"
    /\ Triple("listener") = <<"Ws", Some("Noise"), Some("Yamux")>>
    /\ Triple("dialer") = Triple("listener")
    /\ bs["listener"].ip = "10.0.0.5" /\ bs["dialer"].ip = "10.0.0.5"
    /\ bs["listener"].result.addr = "/ip4/10.0.0.5/tcp/0/ws"
    /\ bs["dialer"].result.addr = "/ip4/10.0.0.5/tcp/0/wss"

\* The triple has a construction arm in the call's environment.
HasArm(p) == \E i \in 1..Len(ArmsOf(bs[p].env)) : ArmsOf(bs[p].env)[i].pat = Triple(p)

\* C4 as claimed: a call returns an error if and only if its triple has no
\* arm in the active environment; with an arm, every run returns an endpoint.
C4_UnsupportedIsOnlyError ==
    \A p \in Builders :
        Returned(p) => (bs[p].result.kind = "Err" <=> ~HasArm(p))

\* C4 as amended: a call returns an error if and only if its triple has no
\* arm in the active environment (the 'Unsupported combination' error) or a
\* builder step of its arm that is followed by `?` (with_tcp, with_websocket,
\* with_other_transport, with_behaviour) returned an error, which is then the
\* error returned. A run in which every step succeeds returns the fully built
\* endpoint and its address; no run returns a partly built endpoint.
C4_ErrorOutcomes ==
    \A p \in Builders :
        Returned(p) =>
            IF HasArm(p)
            THEN ReturnedEndpoint(p) \/ StepFailed(p)
            ELSE Unsupported(p) /\ bs[p].result.swarm = NoSwarm /\ bs[p].result.addr = ""

\* C4 witness: a native (Ws, Tls, Mplex) call, which has an arm, returned
\* the error of its with_websocket step.
C4_Witness ==
    \E p \in Builders :
        /\ bs[p].env = "native" /\ Triple(p) = <<"Ws", Some("Tls"), Some("Mplex")>>
        /\ StepFailed(p)
        /\ bs[p].result.msg = "with_websocket failed"

(***************************************************************************)
(* Part II: RedisClient                                                    *)
(***************************************************************************)

\* The client processes: two built for a native target, one for wasm32.
Clients == {"A", "B", "W"}
IsWasm(c) == c = "W"

\* Rendezvous keys and the values pushed under them (dial addresses).
Keys == {"listener_addr", "dialer_done"}
Values == {FormatAddr("10.0.0.5", "/tcp/0"), FormatAddr("10.0.0.5", "/tcp/0/ws")}

\* Calls issued in one run, over all clients: of RdvSpec, of FifoSpec and of
\* LiveSpec.
MaxCalls == 2
FifoCalls == 4
LiveCalls == 2

\* A u64 as two 32-bit limbs: the value is hi * 2^32 + lo.
U64(hi, lo) == [hi |-> hi, lo |-> lo]
Zero == U64(0, 0)

\* The timeouts callers pass: 0 and 30 seconds, and 2^32 seconds, which
\* `as usize` turns into 0 where usize has 32 bits.
Timeouts == {U64(0, 0), U64(0, 30)}
WideTimeouts == Timeouts \cup {U64(1, 0)}

\* Mutant: `timeout as u32 as usize`, the low 32 bits on every target.
AsU32(t) == U64(0, t.lo)

\* `timeout as usize`: the low usizeBits bits of the u64.
AsUsize(t) == IF usizeBits = 32 THEN U64(0, t.lo) ELSE t

\* Broker replies.
NoReply == [type |-> "none", items |-> <<>>, n |-> 0]
NilReply == [type |-> "nil", items |-> <<>>, n |-> 0]
BulkReply(k, v) == [type |-> "bulk", items |-> <<k, v>>, n |-> 0]
IntReply(n) == [type |-> "int", items |-> <<>>, n |-> n]

\* Result<Vec<String>> and Result<()> (val is empty for ()).
NoRes == [kind |-> "none", val |-> <<>>, err |-> ""]
Ok(val) == [kind |-> "Ok", val |-> val, err |-> ""]
Err(e) == [kind |-> "Err", val |-> <<>>, err |-> e]

NoCmd == [name |-> "", key |-> "", value |-> "", timeout |-> Zero]

\* Mutant: BLPOP on a hard-coded key instead of the key passed in.
BlpopCommandFixedKey(key, timeout) ==
    [name |-> "BLPOP", key |-> "dialer_done", value |-> "", timeout |-> AsUsize(timeout)]

\* conn.blpop(key, timeout as usize)
BlpopCommand(key, timeout) ==
    [name |-> "BLPOP", key |-> key, value |-> "", timeout |-> AsUsize(timeout)]

\* Mutant: conn.lpush(key, value).
LpushCommand(key, value) ==
    [name |-> "LPUSH", key |-> key, value |-> value, timeout |-> Zero]

\* conn.rpush(key, value)
RpushCommand(key, value) ==
    [name |-> "RPUSH", key |-> key, value |-> value, timeout |-> Zero]

\* A call record. cmd is the command put on the connection; cause,
\* published, idx, pushedAt and poppedAt are history: why the call ended, how
\* often the broker added its value, the position in pushedLog of the value it
\* was handed, and Len(pushedLog[key]) and nPopped[key] when it was invoked.
IdleCall ==
    [op |-> "none", key |-> "", value |-> "", timeout |-> Zero, pc |-> "idle",
     cmd |-> NoCmd, reply |-> NoReply, result |-> NoRes, cause |-> "",
     published |-> 0, idx |-> 0, pushedAt |-> 0, poppedAt |-> 0]

NewCall(op, key, value, timeout) ==
    [IdleCall EXCEPT !.op = op, !.key = key, !.value = value, !.timeout = timeout,
                     !.pushedAt = Len(pushedLog[key]), !.poppedAt = nPopped[key]]

CanCall(c) == call[c].pc \in {"idle", "done"} /\ left > 0

\* native::RedisClient::blpop is called: get_async_connection() is awaited.
native_blpop(c, key, timeout) ==
    /\ ~IsWasm(c) /\ CanCall(c)
    /\ call' = [call EXCEPT ![c] = [NewCall("blpop", key, "", timeout) EXCEPT !.pc = "connecting"]]
    /\ left' = left - 1
    /\ UNCHANGED <<bs, lists, blocked, pushedLog, nPopped, returned, usizeBits>>

\* native::RedisClient::rpush is called: get_async_connection() is awaited.
native_rpush(c, key, value) ==
    /\ ~IsWasm(c) /\ CanCall(c)
    /\ call' = [call EXCEPT ![c] = [NewCall("rpush", key, value, Zero) EXCEPT !.pc = "connecting"]]
    /\ left' = left - 1
    /\ UNCHANGED <<bs, lists, blocked, pushedLog, nPopped, returned, usizeBits>>

\* wasm::RedisClient::blpop is called: POST /blpop {key, timeout} is sent.
wasm_blpop(c, key, timeout) ==
    /\ IsWasm(c) /\ CanCall(c)
    /\ call' = [call EXCEPT ![c] = [NewCall("blpop", key, "", timeout) EXCEPT !.pc = "http"]]
    /\ left' = left - 1
    /\ UNCHANGED <<bs, lists, blocked, pushedLog, nPopped, returned, usizeBits>>

\* Mutant: the value is handed to the broker before the call bails.
wasm_rpush_forwarded(c, key, value) ==
    /\ IsWasm(c) /\ CanCall(c)
    /\ call' = [call EXCEPT ![c] =
            [NewCall("rpush", key, value, Zero) EXCEPT
                !.pc = "done", !.result = Err("unimplemented"), !.cause = "unimplemented",
                !.published = 1]]
    /\ lists' = [lists EXCEPT ![key] = Append(@, value)]
    /\ pushedLog' = [pushedLog EXCEPT ![key] = Append(@, value)]
    /\ left' = left - 1
    /\ UNCHANGED <<bs, blocked, nPopped, returned, usizeBits>>

\* wasm::RedisClient::rpush: bail!("unimplemented"), nothing is sent.
wasm_rpush(c, key, value) ==
    /\ IsWasm(c) /\ CanCall(c)
    /\ call' = [call EXCEPT ![c] =
            [NewCall("rpush", key, value, Zero) EXCEPT
                !.pc = "done", !.result = Err("unimplemented"), !.cause = "unimplemented"]]
    /\ left' = left - 1
    /\ UNCHANGED <<bs, lists, blocked, pushedLog, nPopped, returned, usizeBits>>

\* The command the awaited connection carries, by the call's operation.
CommandOf(c) ==
    IF call[c].op = "blpop"
    THEN BlpopCommand(call[c].key, call[c].timeout)
    ELSE RpushCommand(call[c].key, call[c].value)

\* The error a failed call returns: a redis error natively, a reqwest error
\* in wasm.
TransportErr(c) == IF IsWasm(c) THEN Err("reqwest") ELSE Err("redis")

\* The POST reaches the proxy, which opens its broker connection.
HttpOk(c) ==
    /\ call[c].pc = "http"
    /\ call' = [call EXCEPT ![c].pc = "connecting"]
    /\ UNCHANGED <<bs, left, lists, blocked, pushedLog, nPopped, returned, usizeBits>>

\* send().await? fails: the proxy cannot be reached.
HttpErr(c) ==
    /\ call[c].pc = "http"
    /\ call' = [call EXCEPT ![c] =
            [@ EXCEPT !.pc = "done", !.result = Err("reqwest"), !.cause = "http"]]
    /\ UNCHANGED <<bs, left, lists, blocked, pushedLog, nPopped, returned, usizeBits>>

\* get_async_connection().await is Ok: the command goes onto the connection.
ConnectOk(c) ==
    /\ call[c].pc = "connecting"
    /\ call' = [call EXCEPT ![c] = [@ EXCEPT !.pc = "sent", !.cmd = CommandOf(c)]]
    /\ UNCHANGED <<bs, left, lists, blocked, pushedLog, nPopped, returned, usizeBits>>

\* get_async_connection().await? is Err: the broker cannot be reached (in
\* wasm the proxy answers with an error status and no array to decode).
ConnectErr(c) ==
    /\ call[c].pc = "connecting"
    /\ call' = [call EXCEPT ![c] =
            [@ EXCEPT !.pc = "done", !.result = TransportErr(c), !.cause = "connect"]]
    /\ UNCHANGED <<bs, left, lists, blocked, pushedLog, nPopped, returned, usizeBits>>

\* Positions in the blocked queue waiting on key k.
WaitersOn(k) == {i \in 1..Len(blocked) : call[blocked[i]].cmd.key = k}
RemoveAt(q, i) == SubSeq(q, 1, i - 1) \o SubSeq(q, i + 1, Len(q))

\* The broker executes RPUSH (LPUSH) key value: the value goes to the tail
\* (head) of the list, the reply is the list's length, and the client blocked
\* longest on the key, if any, is handed the head of the list.
BrokerPush(c) ==
    LET cmd == call[c].cmd
        k == cmd.key
        new == IF cmd.name = "RPUSH" THEN Append(lists[k], cmd.value)
                                    ELSE <<cmd.value>> \o lists[k]
        ws == WaitersOn(k)
        i == CHOOSE x \in ws : \A y \in ws : x <= y
    IN  /\ call[c].pc = "sent" /\ cmd.name \in {"RPUSH", "LPUSH"}
        /\ pushedLog' = [pushedLog EXCEPT ![k] = Append(@, cmd.value)]
        /\ IF ws = {}
           THEN /\ lists' = [lists EXCEPT ![k] = new]
                /\ call' = [call EXCEPT ![c] =
                        [@ EXCEPT !.pc = "reply", !.reply = IntReply(Len(new)),
                                  !.published = @ + 1]]
                /\ UNCHANGED <<blocked, nPopped>>
           ELSE /\ lists' = [lists EXCEPT ![k] = Tail(new)]
                /\ blocked' = RemoveAt(blocked, i)
                /\ nPopped' = [nPopped EXCEPT ![k] = @ + 1]
                /\ call' = [call EXCEPT
                        ![c] = [@ EXCEPT !.pc = "reply", !.reply = IntReply(Len(new)),
                                         !.published = @ + 1],
                        ![blocked[i]] = [@ EXCEPT !.pc = "reply",
                                                  !.reply = BulkReply(k, Head(new)),
                                                  !.idx = nPopped[k] + 1]]
        /\ UNCHANGED <<bs, left, returned, usizeBits>>

\* The broker executes BLPOP key timeout: it pops the head of a non-empty
\* list and replies [key, value], and blocks the client on an empty one.
BrokerPop(c) ==
    LET k == call[c].cmd.key
    IN  /\ call[c].pc = "sent" /\ call[c].cmd.name = "BLPOP"
        /\ IF lists[k] # <<>>
           THEN /\ lists' = [lists EXCEPT ![k] = Tail(@)]
                /\ nPopped' = [nPopped EXCEPT ![k] = @ + 1]
                /\ call' = [call EXCEPT ![c] =
                        [@ EXCEPT !.pc = "reply", !.reply = BulkReply(k, Head(lists[k])),
                                  !.idx = nPopped[k] + 1]]
                /\ UNCHANGED blocked
           ELSE /\ blocked' = Append(blocked, c)
                /\ call' = [call EXCEPT ![c].pc = "blocked"]
                /\ UNCHANGED <<lists, nPopped>>
        /\ UNCHANGED <<bs, left, pushedLog, returned, usizeBits>>

\* The timeout of a blocked BLPOP elapses: the broker replies nil. A timeout
\* of 0 blocks without limit.
BrokerTimeout(c) ==
    /\ call[c].pc = "blocked"
    /\ call[c].cmd.timeout # Zero
    /\ \E i \in 1..Len(blocked) : blocked[i] = c /\ blocked' = RemoveAt(blocked, i)
    /\ call' = [call EXCEPT ![c] = [@ EXCEPT !.pc = "reply", !.reply = NilReply]]
    /\ UNCHANGED <<bs, left, lists, pushedLog, nPopped, returned, usizeBits>>

\* Mutant: a nil reply is a type error, as for a (String, String) result.
BlpopValueNilIsError(reply) ==
    CASE reply.type = "bulk" -> Ok(reply.items)
      [] OTHER               -> Err("redis")

\* Ok(conn.blpop(..).await?): the reply as a Vec<String>, nil being the
\* empty vector and [key, value] the two strings.
BlpopValue(reply) ==
    CASE reply.type = "nil"  -> Ok(<<>>)
      [] reply.type = "bulk" -> Ok(reply.items)
      [] OTHER               -> Err("redis")

\* conn.rpush(..).await?; Ok(())
RpushValue(reply) == Ok(<<>>)

\* The proxy's answer to POST /blpop, a JSON array of the reply's strings,
\* decoded by .json().await? into a Vec<String>.
HttpBlpopValue(reply) ==
    CASE reply.type = "nil"  -> Ok(<<>>)
      [] reply.type = "bulk" -> Ok(reply.items)
      [] OTHER               -> Err("reqwest")

ValueOf(c) ==
    IF call[c].op = "rpush" THEN RpushValue(call[c].reply)
    ELSE IF IsWasm(c) THEN HttpBlpopValue(call[c].reply)
    ELSE BlpopValue(call[c].reply)

CauseOf(reply) ==
    CASE reply.type = "nil" -> "timeout" [] reply.type = "bulk" -> "value" [] OTHER -> "ack"

\* The reply reaches the caller and the call returns.
Deliver(c) ==
    LET res == ValueOf(c)
    IN  /\ call[c].pc = "reply"
        /\ call' = [call EXCEPT ![c] =
                [@ EXCEPT !.pc = "done", !.result = res, !.cause = CauseOf(call[c].reply)]]
        /\ returned' =
              IF call[c].op = "blpop" /\ res.kind = "Ok" /\ Len(res.val) = 2
              THEN LET k == call[c].key
                       v == res.val[2]
                   IN  [returned EXCEPT ![k] =
                            IF v \in DOMAIN @ THEN [@ EXCEPT ![v] = @ + 1] ELSE @]
              ELSE returned
        /\ UNCHANGED <<bs, left, lists, blocked, pushedLog, nPopped, usizeBits>>

\* Mutant: an rpush whose reply is lost puts its command on a connection
\* again.
DropRetries(c) ==
    /\ call[c].pc \in {"sent", "blocked", "reply"}
    /\ call' = [call EXCEPT ![c] =
            IF call[c].op = "rpush" /\ call[c].pc = "reply"
            THEN [@ EXCEPT !.pc = "sent", !.reply = NoReply]
            ELSE [@ EXCEPT !.pc = "done", !.result = TransportErr(c), !.cause = "drop"]]
    /\ blocked' = IF \E i \in 1..Len(blocked) : blocked[i] = c
                  THEN RemoveAt(blocked, CHOOSE i \in 1..Len(blocked) : blocked[i] = c)
                  ELSE blocked
    /\ UNCHANGED <<bs, left, lists, pushedLog, nPopped, returned, usizeBits>>

\* The connection is lost while the command or its reply is awaited: the
\* `?` after the await returns the error, and the broker forgets a blocked
\* client.
Drop(c) ==
    /\ call[c].pc \in {"sent", "blocked", "reply"}
    /\ call' = [call EXCEPT ![c] =
            [@ EXCEPT !.pc = "done", !.result = TransportErr(c), !.cause = "drop"]]
    /\ blocked' = IF \E i \in 1..Len(blocked) : blocked[i] = c
                  THEN RemoveAt(blocked, CHOOSE i \in 1..Len(blocked) : blocked[i] = c)
                  ELSE blocked
    /\ UNCHANGED <<bs, left, lists, pushedLog, nPopped, returned, usizeBits>>

\* The state before any call, with the run's call budget and target width.
RdvStart(budget, widths) ==
    /\ call = [c \in Clients |-> IdleCall]
    /\ left = budget
    /\ lists = [k \in Keys |-> <<>>]
    /\ blocked = <<>>
    /\ pushedLog = [k \in Keys |-> <<>>]
    /\ nPopped = [k \in Keys |-> 0]
    /\ returned = [k \in Keys |-> [v \in Values |-> 0]]
    /\ usizeBits \in widths

\* What the connections, the proxy and the broker do with the calls in flight.
Progress ==
    \/ \E c \in Clients : HttpOk(c)
    \/ \E c \in Clients : HttpErr(c)
    \/ \E c \in Clients : ConnectOk(c)
    \/ \E c \in Clients : ConnectErr(c)
    \/ \E c \in Clients : BrokerPush(c)
    \/ \E c \in Clients : BrokerPop(c)
    \/ \E c \in Clients : BrokerTimeout(c)
    \/ \E c \in Clients : Deliver(c)
    \/ \E c \in Clients : Drop(c)

\* Any client calls any operation with any key, value and timeout.
RdvNext ==
    \/ \E c \in Clients, k \in Keys, t \in Timeouts : native_blpop(c, k, t)
    \/ \E c \in Clients, k \in Keys, v \in Values : native_rpush(c, k, v)
    \/ \E c \in Clients, k \in Keys, t \in Timeouts : wasm_blpop(c, k, t)
    \/ \E c \in Clients, k \in Keys, v \in Values : wasm_rpush(c, k, v)
    \/ Progress

\* A publishes addresses, B and W wait for them with a 30 second timeout.
FifoNext ==
    \/ \E v \in Values : native_rpush("A", "listener_addr", v)
    \/ native_blpop("B", "listener_addr", U64(0, 30))
    \/ wasm_blpop("W", "listener_addr", U64(0, 30))
    \/ Progress

\* One key, every timeout including 2^32, on 32-bit and 64-bit targets.
LiveNext ==
    \/ \E c \in Clients, t \in WideTimeouts : native_blpop(c, "listener_addr", t)
    \/ \E c \in Clients, v \in Values : native_rpush(c, "listener_addr", v)
    \/ \E c \in Clients, t \in WideTimeouts : wasm_blpop(c, "listener_addr", t)
    \/ Progress

BuildStart == bs = [p \in Builders |-> IdleBuild]

BuildInit == BuildStart /\ RdvStart(0, {64})
RdvInit == BuildStart /\ RdvStart(MaxCalls, {64})
FifoInit == BuildStart /\ RdvStart(FifoCalls, {64})
LiveInit == BuildStart /\ RdvStart(LiveCalls, {32, 64})

BuildSpec == BuildInit /\ [][BuildNext]_vars

RdvSpec == RdvInit /\ [][RdvNext]_vars

FifoSpec == FifoInit /\ [][FifoNext]_vars

\* The connection attempts resolve, the broker executes what it receives,
\* its clock runs and replies arrive; a connection need never be lost and no
\* client need ever call.
Fairness ==
    \A c \in Clients :
        /\ WF_vars(HttpOk(c) \/ HttpErr(c))
        /\ WF_vars(ConnectOk(c) \/ ConnectErr(c))
        /\ WF_vars(BrokerPush(c))
        /\ WF_vars(BrokerPop(c))
        /\ WF_vars(BrokerTimeout(c))
        /\ WF_vars(Deliver(c))

LiveSpec == LiveInit /\ [][LiveNext]_vars /\ Fairness

(***************************************************************************)
(* Part II: properties of RedisClient                                      *)
(***************************************************************************)

IsDone(c, op) == call[c].op = op /\ call[c].pc = "done"

\* Occurrences of v in the sequence q.
Count(q, v) == Cardinality({i \in 1..Len(q) : q[i] = v})

\* C5 as claimed: a blpop whose wait ended with the timeout elapsing (the
\* broker's nil reply) returns an error.
C5_TimeoutIsError ==
    \A c \in Clients :
        (IsDone(c, "blpop") /\ call[c].cause = "timeout") => call[c].result.kind = "Err"

\* C5 as amended: a blpop with timeout > 0 whose wait ends with the timeout
\* elapsing returns success with an empty vector (no key, no value), in the
\* native and in the wasm client; that outcome differs from the error
\* returned when the broker or the proxy cannot be reached or the connection
\* is lost, and from a popped [key, value].
C5_TimeoutIsEmptyOk ==
    \A c \in Clients :
        (IsDone(c, "blpop") /\ call[c].cause = "timeout") =>
            /\ call[c].result = [kind |-> "Ok", val |-> <<>>, err |-> ""]
            /\ call[c].timeout # Zero
            /\ \A d \in Clients :
                  (IsDone(d, "blpop") /\ call[d].cause \in {"connect", "http", "drop"}) =>
                      call[d].result.kind = "Err" /\ call[d].result # call[c].result
            /\ \A d \in Clients :
                  (IsDone(d, "blpop") /\ call[d].cause = "value") =>
                      Len(call[d].result.val) = 2 /\ call[d].result # call[c].result

\* C5 witness: a native and a wasm blpop have both ended by timeout, with no
\* value pushed under their key.
C5_Witness ==
    /\ IsDone("A", "blpop") /\ call["A"].cause = "timeout"
    /\ IsDone("W", "blpop") /\ call["W"].cause = "timeout"
    /\ call["A"].key = call["W"].key
    /\ pushedLog[call["A"].key] = <<>>

\* C6: under each key the pending values are the values pushed and not yet
\* popped, in push order; a blpop that returns a value returns [key, value]
\* with the oldest value pending when the broker served it, a value pushed
\* later than every value popped before the blpop was called; and a
\* successful rpush added its value once, after every value pushed before it
\* was called.
C6_Fifo ==
    /\ \A k \in Keys :
          /\ nPopped[k] <= Len(pushedLog[k])
          /\ lists[k] = SubSeq(pushedLog[k], nPopped[k] + 1, Len(pushedLog[k]))
    /\ \A c \in Clients :
          (IsDone(c, "blpop") /\ call[c].result.kind = "Ok" /\ call[c].result.val # <<>>) =>
              /\ call[c].idx \in 1..nPopped[call[c].key]
              /\ call[c].idx > call[c].poppedAt
              /\ call[c].result.val = <<call[c].key, pushedLog[call[c].key][call[c].idx]>>
    /\ \A c \in Clients :
          (IsDone(c, "rpush") /\ call[c].result.kind = "Ok") =>
              /\ call[c].published = 1
              /\ Len(pushedLog[call[c].key]) > call[c].pushedAt
              /\ \E i \in (call[c].pushedAt + 1)..Len(pushedLog[call[c].key]) :
                    pushedLog[call[c].key][i] = call[c].value

\* C6 witness: A pushed "/ip4/10.0.0.5/tcp/0" and then "/ip4/10.0.0.5/tcp/0/ws"
\* under "listener_addr"; B's blpop returned the first, and W's blpop, called
\* after that pop, the second.
C6_Witness ==
    /\ pushedLog["listener_addr"] = <<"/ip4/10.0.0.5/tcp/0", "/ip4/10.0.0.5/tcp/0/ws">>
    /\ IsDone("A", "rpush") /\ call["A"].result.kind = "Ok" /\ call["A"].pushedAt = 1
    /\ IsDone("B", "blpop")
    /\ call["B"].result.val = <<"listener_addr", "/ip4/10.0.0.5/tcp/0">>
    /\ IsDone("W", "blpop") /\ call["W"].poppedAt = 1
    /\ call["W"].result.val = <<"listener_addr", "/ip4/10.0.0.5/tcp/0/ws">>

\* The blpop of b returned without a transport error, with timeout > 0.
BlpopAnswered(b) ==
    /\ IsDone(b, "blpop") /\ call[b].result.kind = "Ok" /\ call[b].timeout # Zero

\* Values popped from k by calls other than b's current one.
PoppedByOthers(b, k) ==
    nPopped[k] - (IF call[b].key = k /\ call[b].idx # 0 THEN 1 ELSE 0)

\* C7 as claimed: once a's rpush(k, v) has returned success and no other
\* process pops k, a blpop(k, timeout > 0) of b, called before or after the
\* push, returns [k, v] and does not end in a timeout (a call that fails with
\* a transport error is left aside).
C7_HandOffBeforeOrAfter ==
    \A a, b \in Clients : \A k \in Keys :
        (/\ a # b
         /\ IsDone(a, "rpush") /\ call[a].result.kind = "Ok" /\ call[a].key = k
         /\ pushedLog[k] = <<call[a].value>>
         /\ BlpopAnswered(b) /\ call[b].key = k
         /\ PoppedByOthers(b, k) = 0)
        => call[b].result.val = <<k, call[a].value>>

\* C7 as amended: a blpop(k, timeout > 0) that is called when a value pushed
\* under k is pending, or that is still waiting at the broker when the push is
\* executed, and whose connection does not fail, returns [k, v] with the
\* oldest pending value v and does not end in a timeout: no client stays
\* blocked on a key that holds a value, a blpop that returned the empty
\* vector was called when every value pushed so far had been popped by other
\* calls, and with one value pushed, already at the call, and no other pop
\* the result is exactly [k, v]. A blpop called before the push may time out
\* before the push arrives.
C7_HandOff ==
    /\ \A i \in 1..Len(blocked) :
          /\ call[blocked[i]].pc = "blocked"
          /\ lists[call[blocked[i]].cmd.key] = <<>>
    /\ \A b \in Clients :
          BlpopAnswered(b) =>
              LET k == call[b].key
              IN  /\ call[b].result.val = <<>> =>
                        call[b].idx = 0 /\ nPopped[k] >= call[b].pushedAt
                  /\ call[b].result.val # <<>> =>
                        /\ call[b].idx \in 1..Len(pushedLog[k])
                        /\ call[b].result.val = <<k, pushedLog[k][call[b].idx]>>
                  /\ (call[b].pushedAt >= 1 /\ PoppedByOthers(b, k) = 0) =>
                        call[b].result.val = <<k, pushedLog[k][1]>>

\* C7 witness: A's rpush("listener_addr", "/ip4/10.0.0.5/tcp/0") returned Ok
\* and B's blpop("listener_addr", 30), called after the push, returned that
\* key and value.
C7_Witness ==
    /\ IsDone("A", "rpush") /\ call["A"].result.kind = "Ok"
    /\ call["A"].key = "listener_addr" /\ call["A"].value = "/ip4/10.0.0.5/tcp/0"
    /\ BlpopAnswered("B") /\ call["B"].key = "listener_addr"
    /\ call["B"].timeout = U64(0, 30) /\ call["B"].pushedAt = 1
    /\ call["B"].result.val = <<"listener_addr", "/ip4/10.0.0.5/tcp/0">>

InBlpop(c) == call[c].op = "blpop" /\ call[c].pc # "done"

\* A step of the call's own connection, of the broker or of the broker's
\* clock can advance the call of c.
CanAdvance(c) ==
    ENABLED (\/ HttpOk(c) \/ HttpErr(c) \/ ConnectOk(c) \/ ConnectErr(c)
             \/ BrokerPop(c) \/ BrokerTimeout(c) \/ Deliver(c))

\* C8 as claimed: every blpop call, whatever its timeout (0 included) and
\* whether or not a value is ever pushed, runs to completion while the broker
\* and the clock make progress: at every moment of the call a step of its
\* connection, of the broker or of the clock advances it, none waits for a
\* push.
C8_NeverWaitsForAPush ==
    \A c \in Clients : InBlpop(c) => CanAdvance(c)

\* The timeout is not 0 after `as usize` on the target.
UsizeNonZero(t) == t.lo # 0 \/ (usizeBits = 64 /\ t.hi # 0)

\* C8 as amended: while the connections, the broker and its clock keep
\* making progress, every blpop call whose timeout is not 0 as a usize (any
\* timeout > 0 where usize has 64 bits, any timeout that is not a multiple of
\* 2^32 where it has 32) eventually completes: with a popped value, the empty
\* vector of a timeout, or a transport error. A blpop whose timeout is 0 as a
\* usize waits until a value is pushed.
C8_CompletesIfTimeoutNonZero ==
    \A c \in Clients :
        (InBlpop(c) /\ UsizeNonZero(call[c].timeout)) ~> (call[c].pc = "done")

\* C8 witness: on a 64-bit target a blpop with timeout 2^32 and a wasm blpop
\* with timeout 30 have both ended by timeout.
C8_Witness ==
    /\ usizeBits = 64
    /\ IsDone("A", "blpop") /\ call["A"].timeout = U64(1, 0) /\ call["A"].cause = "timeout"
    /\ IsDone("W", "blpop") /\ call["W"].timeout = U64(0, 30) /\ call["W"].cause = "timeout"

\* C9 as claimed: an rpush that returned an error has added nothing to the
\* broker's list.
C9_FailedPushPublishesNothing ==
    \A c \in Clients :
        (IsDone(c, "rpush") /\ call[c].result.kind = "Err") => call[c].published = 0

\* C9 as amended: an rpush that returns the 'unimplemented' error (wasm,
\* which sends nothing) or the error of get_async_connection (native) has
\* added nothing to the broker's list. An rpush that returns an error from
\* awaiting the broker's reply to RPUSH has added its value at most once: the
\* broker may have executed the command before the connection was lost, and a
\* later blpop can then return the value.
C9_FailedPush ==
    \A c \in Clients :
        (IsDone(c, "rpush") /\ call[c].result.kind = "Err") =>
            /\ call[c].cause \in {"unimplemented", "connect", "drop"}
            /\ call[c].cause \in {"unimplemented", "connect"} => call[c].published = 0
            /\ call[c].published <= 1
            /\ call[c].published <= Count(pushedLog[call[c].key], call[c].value)
            /\ IsWasm(c) => call[c].result.err = "unimplemented" /\ call[c].cmd = NoCmd

\* C9 witness: an rpush returned an error after the broker had executed it,
\* and a blpop of another client returned its value.
C9_Witness ==
    \E c, d \in Clients :
        /\ IsDone(c, "rpush") /\ call[c].result.kind = "Err" /\ call[c].published = 1
        /\ IsDone(d, "blpop") /\ call[d].result.val = <<call[c].key, call[c].value>>

\* Bulk replies on their way to a blpop call, carrying v for key k.
InFlight(k, v) ==
    Cardinality({c \in Clients : call[c].pc = "reply" /\ call[c].reply = BulkReply(k, v)})

\* C10: under every interleaving of rpush and blpop calls of the native
\* clients and the wasm client on one key, a value a blpop returns was pushed
\* under the call's key by an rpush call, every rpush call adds its value at
\* most once, and each value is returned no more often than it was pushed:
\* none is handed to two poppers and none is made up.
C10_NoDuplicateNoFabrication ==
    /\ \A c \in Clients :
          (IsDone(c, "blpop") /\ call[c].result.kind = "Ok" /\ call[c].result.val # <<>>) =>
              /\ Len(call[c].result.val) = 2
              /\ call[c].result.val[1] = call[c].key
              /\ Count(pushedLog[call[c].key], call[c].result.val[2]) > 0
    /\ \A c \in Clients : call[c].published <= 1
    /\ \A k \in Keys : \A v \in Values :
          /\ returned[k][v] + InFlight(k, v) <= Count(SubSeq(pushedLog[k], 1, nPopped[k]), v)
          /\ Count(lists[k], v) + Count(SubSeq(pushedLog[k], 1, nPopped[k]), v)
                = Count(pushedLog[k], v)

\* C10 witness: B and W were both blocked on "listener_addr" when A pushed
\* one value; B, blocked first, returned it and W is still blocked.
C10_Witness ==
    /\ pushedLog["listener_addr"] = <<"/ip4/10.0.0.5/tcp/0">>
    /\ IsDone("B", "blpop") /\ call["B"].poppedAt = 0 /\ call["B"].pushedAt = 0
    /\ call["B"].result.val = <<"listener_addr", "/ip4/10.0.0.5/tcp/0">>
    /\ call["W"].pc = "blocked" /\ call["W"].pushedAt = 0
    /\ blocked = <<"W">>

=============================================================================
